---------------------------- MODULE Spec2Model ----------------------------
(***************************************************************************)
(* Useful Trainer Editor (src/program.py): the trainer-name codec, the     *)
(* flag-to-variant resolver, the trainer-table scanner and the patch       *)
(* writers, as state machines over files modelled as sequences of lines.   *)
(*                                                                         *)
(* Text is modelled structurally.  A string that the code takes apart      *)
(* character by character (a trainer name, a token list) is a sequence of  *)
(* one-character strings.  A line of a source file is a sequence of        *)
(* elements, each the piece of text one of the code's regular expressions  *)
(* matches; `search` on a line is "the first element of that kind".        *)
(***************************************************************************)
EXTENDS Integers, Sequences, FiniteSets, TLC

VARIABLES
    file,                   \* src/Tables/trainer_data.c, as a sequence of lines
    partyFile,              \* src/Tables/trainer_parties.h, as a sequence of lines
    trainer_data,           \* TrainerEditor.trainer_data
    current_trainer_index,  \* TrainerEditor.current_trainer_index (0 is None)
    entryName,              \* text of TrainerEditor.entryName
    input,                  \* argument of the function under test
    call,                   \* the last operation performed and its arguments
    ret,                    \* what the last operation returned
    before                  \* the files and records as they were before the last operation

vars == <<file, partyFile, trainer_data, current_trainer_index, entryName,
          input, call, ret, before>>

-----------------------------------------------------------------------------
(* Bounds of the model.                                                    *)

MaxNameLen == 2
MaxTokens == 3
MaxFlagWords == 3
MaxRecords == 2
MaxRosters == 2

-----------------------------------------------------------------------------
(* Generic sequence helpers.                                               *)

RECURSIVE SeqsUpTo(_, _)
SeqsUpTo(S, n) ==
    IF n = 0 THEN {<<>>}
    ELSE LET shorter == SeqsUpTo(S, n - 1)
         IN  shorter \cup {Append(s, x) : s \in {t \in shorter : Len(t) = n - 1}, x \in S}

-----------------------------------------------------------------------------
(* The character map.                                                      *)

UpperChars == {"A","B","C","D","E","F","G","H","I","J","K","L","M",
               "N","O","P","Q","R","S","T","U","V","W","X","Y","Z"}
LowerChars == {"a","b","c","d","e","f","g","h","i","j","k","l","m",
               "n","o","p","q","r","s","t","u","v","w","x","y","z"}
DigitChars == {"0","1","2","3","4","5","6","7","8","9"}

SPACE_TOKEN == <<"_","S","P","A","C","E">>
AMPERSAND_TOKEN == <<"_","A","M","P","E","R","S","A","N","D">>
PERIOD_TOKEN == <<"_","P","E","R","I","O","D">>
END_TOKEN == <<"_","E","N","D">>

\* The keys of charMap: f"_{c}" for the letters and digits, and the three names.
charMapKeys == {<<"_", c>> : c \in UpperChars \cup LowerChars \cup DigitChars}
                   \cup {SPACE_TOKEN, AMPERSAND_TOKEN, PERIOD_TOKEN}

charMap == [t \in charMapKeys |->
               IF t = SPACE_TOKEN THEN " "
               ELSE IF t = AMPERSAND_TOKEN THEN "&"
               ELSE IF t = PERIOD_TOKEN THEN "."
               ELSE t[2]]

\* {v: k for k, v in charMap.items()}
reverseCharMapKeys == {charMap[t] : t \in charMapKeys}
reverseCharMap == [c \in reverseCharMapKeys |->
                      CHOOSE t \in charMapKeys : charMap[t] = c]

\* charMap.get(t, ''): the character as a string, or the empty string.
charMapGet(t) == IF t \in charMapKeys THEN <<charMap[t]>> ELSE <<>>

-----------------------------------------------------------------------------
(* String primitives used by the codec.                                    *)

Whitespace == {" ", "\t", "\n"}

\* ", ".join(tokens)
RECURSIVE Join(_)
Join(tokens) ==
    IF Len(tokens) = 0 THEN <<>>
    ELSE IF Len(tokens) = 1 THEN tokens[1]
    ELSE tokens[1] \o <<",", " ">> \o Join(Tail(tokens))

\* str.split(','): always at least one piece.
RECURSIVE SplitFrom(_, _, _)
SplitFrom(s, i, piece) ==
    IF i > Len(s) THEN <<piece>>
    ELSE IF s[i] = "," THEN <<piece>> \o SplitFrom(s, i + 1, <<>>)
    ELSE SplitFrom(s, i + 1, Append(piece, s[i]))

SplitComma(s) == SplitFrom(s, 1, <<>>)

\* str.strip()
RECURSIVE LStrip(_)
LStrip(s) ==
    IF Len(s) > 0 /\ s[1] \in Whitespace THEN LStrip(Tail(s)) ELSE s

RECURSIVE RStrip(_)
RStrip(s) ==
    IF Len(s) > 0 /\ s[Len(s)] \in Whitespace
    THEN RStrip(SubSeq(s, 1, Len(s) - 1)) ELSE s

StripOmitted(s) == s
Strip(s) == RStrip(LStrip(s))

-----------------------------------------------------------------------------
(* encodeTrainerName / decodeTrainerName.                                  *)

\* A call that raised: nothing is returned.
Raised(what) == [ok |-> FALSE, out |-> <<>>, err |-> what]
Returned(v) == [ok |-> TRUE, out |-> v, err |-> ""]

RECURSIVE EncodeLoopLenient(_, _, _)
EncodeLoopLenient(name, i, tokens) ==
    IF i > Len(name) THEN Returned(Join(Append(tokens, END_TOKEN)))
    ELSE IF name[i] \notin reverseCharMapKeys
         THEN EncodeLoopLenient(name, i + 1, tokens)
    ELSE EncodeLoopLenient(name, i + 1, Append(tokens, reverseCharMap[name[i]]))

RECURSIVE EncodeLoop(_, _, _)
EncodeLoop(name, i, tokens) ==
    IF i > Len(name) THEN Returned(Join(Append(tokens, END_TOKEN)))
    ELSE IF name[i] \notin reverseCharMapKeys THEN Raised("ValueError")
    ELSE EncodeLoop(name, i + 1, Append(tokens, reverseCharMap[name[i]]))

encodeTrainerNameLenient(name) == EncodeLoopLenient(name, 1, <<>>)
encodeTrainerName(name) == EncodeLoop(name, 1, <<>>)

\* The test that ends the decoding loop.
DecodeBreaksOnUnknown(t) == t = <<>> \/ t = END_TOKEN \/ t \notin charMapKeys
DecodeBreaks(t) == t = <<>> \/ t = END_TOKEN

RECURSIVE DecodeLoop(_, _, _)
DecodeLoop(pieces, i, name) ==
    IF i > Len(pieces) THEN name
    ELSE LET t == Strip(pieces[i])
         IN  IF DecodeBreaks(t) THEN name
             ELSE DecodeLoop(pieces, i + 1, name \o charMapGet(t))

decodeTrainerName(tokenStr) == DecodeLoop(SplitComma(tokenStr), 1, <<>>)

-----------------------------------------------------------------------------
(* flagsToUnionAndStruct.  A flags expression is a sequence of words (the  *)
(* text between the `|` separators); `x in flags` is substring containment.*)

PARTY_FLAG_HAS_ITEM == "PARTY_FLAG_HAS_ITEM"
PARTY_FLAG_CUSTOM_MOVES == "PARTY_FLAG_CUSTOM_MOVES"

\* Words of the model that hold a flag name as a proper substring.
Superstrings == {<<"PARTY_FLAG_HAS_ITEM_2", PARTY_FLAG_HAS_ITEM>>}

\* needle in flags
Contains(flags, needle) ==
    \E i \in 1..Len(flags) : flags[i] = needle \/ <<flags[i], needle>> \in Superstrings

flagsToUnionAndStructSwapped(flags) ==
    LET has_item == Contains(flags, PARTY_FLAG_HAS_ITEM)
        custom_moves == Contains(flags, PARTY_FLAG_CUSTOM_MOVES)
    IN  IF has_item /\ custom_moves
        THEN <<".ItemCustomMoves", "TrainerMonItemCustomMoves">>
        ELSE IF custom_moves
        THEN <<".ItemDefaultMoves", "TrainerMonItemDefaultMoves">>
        ELSE IF has_item
        THEN <<".NoItemCustomMoves", "TrainerMonNoItemCustomMoves">>
        ELSE <<".NoItemDefaultMoves", "TrainerMonNoItemDefaultMoves">>

flagsToUnionAndStruct(flags) ==
    LET has_item == Contains(flags, PARTY_FLAG_HAS_ITEM)
        custom_moves == Contains(flags, PARTY_FLAG_CUSTOM_MOVES)
    IN  IF has_item /\ custom_moves
        THEN <<".ItemCustomMoves", "TrainerMonItemCustomMoves">>
        ELSE IF has_item
        THEN <<".ItemDefaultMoves", "TrainerMonItemDefaultMoves">>
        ELSE IF custom_moves
        THEN <<".NoItemCustomMoves", "TrainerMonNoItemCustomMoves">>
        ELSE <<".NoItemDefaultMoves", "TrainerMonNoItemDefaultMoves">>

-----------------------------------------------------------------------------
(* Lines of the trainer table.  A line is a sequence of elements           *)
(*   [k |-> kind, v |-> payload (a sequence of strings), c |-> the element *)
(*    is followed by a comma]                                              *)
(* kinds and the text they stand for:                                      *)
(*   open    [<v[1]>] = {            close    },          closeNC   }      *)
(*   name    .trainerName = {<v>}    (v: the characters between the braces)*)
(*   gender  .gender = <v[1]>        double   .doubleBattle = <v[1]>       *)
(*   flags   .partyFlags = <v joined by " | ">                             *)
(*   items   .items = {<v joined by ", ">}   (v: the split of the text)    *)
(*   party   .party = {<v[1]> = <v[2]>}                                    *)
(*   group   .<field> = {            (a brace group closed on a later line)*)
(*   ifdef   #ifdef DECAP_TRAINER_NAMES      else  #else    endif  #endif  *)
(*   define  #define DECAP_TRAINER_NAMES     text  any other text          *)
(* The payload of a text element is its pieces in order; the piece BadByte *)
(* stands for a byte of the file that is not valid UTF-8.  Line ends are   *)
(* those of the platform, which text-mode reading and writing keep.        *)

E(k, v, c) == [k |-> k, v |-> v, c |-> c]

HasKind(line, k) == \E j \in 1..Len(line) : line[j].k = k

\* pattern.search(line): the position of the first match.
FirstOf(line, k) == CHOOSE j \in 1..Len(line) :
                        line[j].k = k /\ \A h \in 1..(j - 1) : line[h].k # k

\* line.strip().startswith(...)
StartsWith(line, k) == Len(line) > 0 /\ line[1].k = k

BadByte == "<E9>"

\* What decoding with errors='ignore' makes of an element: a byte that is
\* not valid UTF-8 is dropped.
DecodeIgnore(el) ==
    IF el.k = "text" THEN [el EXCEPT !.v = SelectSeq(@, LAMBDA p : p # BadByte)]
    ELSE el

\* open(path, encoding='utf-8', errors='ignore').readlines() on a file f.
ReadLines(f) == [i \in 1..Len(f) |-> [j \in 1..Len(f[i]) |-> DecodeIgnore(f[i][j])]]

\* The text [^,]+ takes after a flags expression that no comma follows: up
\* to the next comma of the line, or to the end of the line.
RECURSIVE TailUpToComma(_, _)
TailUpToComma(line, j) ==
    IF j > Len(line) THEN <<>>
    ELSE LET w == IF line[j].k \in {"close", "closeNC"} THEN "}" ELSE "?"
         IN  IF line[j].c THEN <<w>> ELSE <<w>> \o TailUpToComma(line, j + 1)

\* group 1 of pattern_partyflags, stripped.
FlagsCapture(line, j) ==
    IF line[j].c THEN line[j].v ELSE line[j].v \o TailUpToComma(line, j + 1)

-----------------------------------------------------------------------------
(* parseTrainerData.                                                       *)

NewTrainer(id) ==
    [id |-> id, has |-> {}, name |-> <<>>, gender |-> "", items |-> <<>>,
     double |-> FALSE, partyFlags |-> <<>>, party |-> ""]

\* use_decap = any('#define DECAP_TRAINER_NAMES' in l for l in lines)
UseDecap(lines) == \E i \in 1..Len(lines) : HasKind(lines[i], "define")

\* The chain of field searches on one line of an open record: the first
\* pattern that matches sets its key and ends the handling of the line.
ExtractField(current, line) ==
    IF HasKind(line, "name")
    THEN [current EXCEPT !.has = @ \cup {"name"},
                         !.name = decodeTrainerName(line[FirstOf(line, "name")].v)]
    ELSE IF HasKind(line, "gender")
    THEN [current EXCEPT !.has = @ \cup {"gender"},
                         !.gender = line[FirstOf(line, "gender")].v[1]]
    ELSE IF HasKind(line, "items")
    THEN [current EXCEPT !.has = @ \cup {"items"},
                         !.items = line[FirstOf(line, "items")].v]
    ELSE IF HasKind(line, "double")
    THEN [current EXCEPT !.has = @ \cup {"double"},
                         !.double = (line[FirstOf(line, "double")].v[1] = "TRUE")]
    ELSE IF HasKind(line, "flags")
    THEN [current EXCEPT !.has = @ \cup {"partyFlags"},
                         !.partyFlags = FlagsCapture(line, FirstOf(line, "flags"))]
    ELSE IF HasKind(line, "party")
    THEN [current EXCEPT !.has = @ \cup {"party"},
                         !.party = line[FirstOf(line, "party")].v[2]]
    ELSE current

\* if current: trainers.append(current)   (current: a sequence of 0 or 1 records)
FinalAppendDropped(trainers, current) == trainers
FinalAppend(trainers, current) == trainers \o current

\* What a record-open line does: the record being built, if any, is
\* appended and a new one is started.
OpenRecord(trainers, current, id) == <<trainers \o current, <<NewTrainer(id)>>>>

\* One iteration of the loop over the lines; st is the loop's state.
ParseStep(st, line, use_decap) ==
    IF StartsWith(line, "ifdef")
    THEN [st EXCEPT !.in_decap_block = TRUE, !.active = use_decap]
    ELSE IF StartsWith(line, "else") /\ st.in_decap_block
    THEN [st EXCEPT !.active = ~use_decap]
    ELSE IF StartsWith(line, "endif") /\ st.in_decap_block
    THEN [st EXCEPT !.in_decap_block = FALSE, !.active = TRUE]
    ELSE IF HasKind(line, "open")
    THEN LET o == OpenRecord(st.trainers, st.current, line[FirstOf(line, "open")].v[1])
         IN  [st EXCEPT !.trainers = o[1], !.current = o[2]]
    ELSE IF ~st.active \/ st.current = <<>>
    THEN st
    ELSE IF StartsWith(line, "close")
    THEN [st EXCEPT !.trainers = @ \o st.current, !.current = <<>>]
    ELSE [st EXCEPT !.current = <<ExtractField(st.current[1], line)>>]

RECURSIVE ParseLoop(_, _, _, _)
ParseLoop(lines, i, st, use_decap) ==
    IF i > Len(lines) THEN st
    ELSE ParseLoop(lines, i + 1, ParseStep(st, lines[i], use_decap), use_decap)

parseTrainerData(f) ==
    LET lines == ReadLines(f)
        st == ParseLoop(lines, 1,
                        [trainers |-> <<>>, current |-> <<>>,
                         in_decap_block |-> FALSE, active |-> TRUE],
                        UseDecap(lines))
    IN  FinalAppend(st.trainers, st.current)

-----------------------------------------------------------------------------
(* rewriteTrainerName.                                                     *)

\* pattern_id.search(line), pattern_id built from the id that is looked for.
HasOpen(line, id) == \E j \in 1..Len(line) : line[j].k = "open" /\ line[j].v[1] = id

\* pattern_name.sub(rf"\1 {tokenStr} \3", line): every match on the line.
SubName(line, tokenStr) ==
    [j \in 1..Len(line) |->
        IF line[j].k = "name"
        THEN [line[j] EXCEPT !.v = <<" ">> \o tokenStr \o <<" ">>]
        ELSE line[j]]

\* inside = False, before the loop of rewriteTrainerName.
InsideAtStart == FALSE

RECURSIVE RewriteNameLoop(_, _, _, _, _)
RewriteNameLoop(lines, i, inside, trainer_id, tokenStr) ==
    IF i > Len(lines) THEN lines
    ELSE IF ~inside
    THEN RewriteNameLoop(lines, i + 1, HasOpen(lines[i], trainer_id), trainer_id, tokenStr)
    ELSE IF HasKind(lines[i], "name")
    THEN [lines EXCEPT ![i] = SubName(lines[i], tokenStr)]
    ELSE RewriteNameLoop(lines, i + 1, TRUE, trainer_id, tokenStr)

\* The file after the call: the lines read, patched or not, are written back.
rewriteTrainerName(f, trainer_id, tokenStr) ==
    RewriteNameLoop(ReadLines(f), 1, InsideAtStart, trainer_id, tokenStr)

-----------------------------------------------------------------------------
(* rewriteTrainerOptions.                                                  *)

\* A replacement template rf"\1{x}\3" whose x starts with a digit names a
\* group that does not exist: re raises when the substitution is made.
StartsWithDigit(flags) ==
    Len(flags) > 0 /\ flags[1] \in DigitChars

\* Replace the payload of every element of one kind on the line.
SubValue(line, k, v) ==
    [j \in 1..Len(line) |-> IF line[j].k = k THEN [line[j] EXCEPT !.v = v] ELSE line[j]]

\* ', '.join(items), as the text between the braces reads when split again.
ItemsText(items) == IF items = <<>> THEN <<"">> ELSE items

\* The position of the first comma of the line from element j on (0: none).
NextComma(line, j) ==
    IF \E h \in j..Len(line) : line[h].c
    THEN CHOOSE h \in j..Len(line) : line[h].c /\ \A g \in j..(h - 1) : ~line[g].c
    ELSE 0

\* pattern_partyflags.sub(rf"\1{partyFlags}\3", line).  ([^,]+)(,?) takes the
\* expression and whatever follows it up to the next comma; with no comma
\* left on the line it takes the rest of the line, its newline included.
\* Result: <<elements from j on, the line still ends with its newline>>.
RECURSIVE SubFlagsFrom(_, _, _)
SubFlagsFrom(line, j, partyFlags) ==
    IF j > Len(line) THEN <<(<<>>), TRUE>>
    ELSE IF line[j].k # "flags"
    THEN LET rest == SubFlagsFrom(line, j + 1, partyFlags)
         IN  <<(<<line[j]>>) \o rest[1], rest[2]>>
    ELSE LET h == NextComma(line, j)
         IN  IF h = 0
             THEN <<(<<E("flags", partyFlags, FALSE)>>), FALSE>>
             ELSE LET rest == SubFlagsFrom(line, h + 1, partyFlags)
                  IN  <<(<<E("flags", partyFlags, TRUE)>>) \o rest[1], rest[2]>>

\* pattern_party_union.sub(rf"\1{union}\3", line)
SubUnion(line, union) ==
    [j \in 1..Len(line) |->
        IF line[j].k = "party" THEN [line[j] EXCEPT !.v = <<union, @[2]>>] ELSE line[j]]

BoolText(b) == IF b THEN "TRUE" ELSE "FALSE"

\* The loop over the lines.  acc: the lines so far, each with whether it
\* still ends with a newline.  Result: [raised, lines].
RECURSIVE RewriteOptionsLoop(_, _, _, _, _)
RewriteOptionsLoop(lines, i, inside, a, acc) ==
    LET keep(from) == [j \in 1..(Len(lines) - from + 1) |->
                          [els |-> lines[from + j - 1], nl |-> TRUE]]
    IN
    IF i > Len(lines) THEN [raised |-> FALSE, lines |-> acc]
    ELSE IF ~inside
    THEN RewriteOptionsLoop(lines, i + 1, HasOpen(lines[i], a.trainerId), a,
                            Append(acc, [els |-> lines[i], nl |-> TRUE]))
    ELSE IF HasKind(lines[i], "gender")
    THEN RewriteOptionsLoop(lines, i + 1, TRUE, a,
             Append(acc, [els |-> SubValue(lines[i], "gender", <<a.gender>>), nl |-> TRUE]))
    ELSE IF HasKind(lines[i], "double")
    THEN RewriteOptionsLoop(lines, i + 1, TRUE, a,
             Append(acc, [els |-> SubValue(lines[i], "double", <<BoolText(a.double)>>),
                          nl |-> TRUE]))
    ELSE IF HasKind(lines[i], "flags")
    THEN IF StartsWithDigit(a.partyFlags)
         THEN [raised |-> TRUE, lines |-> acc]
         ELSE LET r == SubFlagsFrom(lines[i], 1, a.partyFlags)
              IN  RewriteOptionsLoop(lines, i + 1, TRUE, a,
                      Append(acc, [els |-> r[1], nl |-> r[2]]))
    ELSE IF HasKind(lines[i], "items")
    THEN RewriteOptionsLoop(lines, i + 1, TRUE, a,
             Append(acc, [els |-> SubValue(lines[i], "items", ItemsText(a.items)),
                          nl |-> TRUE]))
    ELSE IF HasKind(lines[i], "party")
    THEN RewriteOptionsLoop(lines, i + 1, TRUE, a,
             Append(acc, [els |-> SubUnion(lines[i], flagsToUnionAndStruct(a.partyFlags)[1]),
                          nl |-> TRUE]))
    ELSE IF StartsWith(lines[i], "close")
    THEN [raised |-> FALSE, lines |-> acc \o keep(i)]
    ELSE RewriteOptionsLoop(lines, i + 1, TRUE, a,
                            Append(acc, [els |-> lines[i], nl |-> TRUE]))

\* f.writelines(lines) and what reading the file again yields: a line that
\* lost its newline runs into the next one.
RECURSIVE WriteLines(_, _, _)
WriteLines(ls, i, pending) ==
    IF i > Len(ls) THEN (IF pending = <<>> THEN <<>> ELSE <<pending>>)
    ELSE IF ls[i].nl THEN <<pending \o ls[i].els>> \o WriteLines(ls, i + 1, <<>>)
    ELSE WriteLines(ls, i + 1, pending \o ls[i].els)

\* [raised, lines]: whether the call raised (the file is then not written)
\* and the lines of the file after the call.
rewriteTrainerOptions(f, a) ==
    LET r == RewriteOptionsLoop(ReadLines(f), 1, FALSE, a, <<>>)
    IN  IF r.raised THEN [raised |-> TRUE, lines |-> f]
        ELSE [raised |-> FALSE, lines |-> WriteLines(r.lines, 1, <<>>)]

-----------------------------------------------------------------------------
(* Lines of the party table, and rewriteTrainerParty.  Elements:           *)
(*   hdr     struct <v[1]> <v[2]>[] = {        end     };                  *)
(*   mopen   {          lvl  .lvl = <v[1]>,    species .species = <v[1]>,  *)
(*   mclose  },         macro  #define <v[1]> \      ref  <v[1]>           *)

HasHdr(line, party_name) ==
    \E j \in 1..Len(line) : line[j].k = "hdr" /\ line[j].v[2] = party_name

\* The scan for the declaration: [start, end, header_type], 0 for None.
RECURSIVE FindParty(_, _, _, _)
FindParty(lines, i, party_name, found) ==
    IF i > Len(lines) THEN found
    ELSE IF found.start = 0
    THEN IF HasHdr(lines[i], party_name)
         THEN FindParty(lines, i + 1, party_name,
                  [found EXCEPT !.start = i,
                                !.header_type =
                                    lines[i][CHOOSE j \in 1..Len(lines[i]) :
                                        /\ lines[i][j].k = "hdr"
                                        /\ lines[i][j].v[2] = party_name
                                        /\ \A h \in 1..(j - 1) :
                                              ~(lines[i][h].k = "hdr"
                                                /\ lines[i][h].v[2] = party_name)].v[1]])
         ELSE FindParty(lines, i + 1, party_name, found)
    ELSE IF StartsWith(lines[i], "end")
    THEN [found EXCEPT !.end = i]
    ELSE FindParty(lines, i + 1, party_name, found)

RECURSIVE MonLines(_)
MonLines(mons) ==
    IF mons = <<>> THEN <<>>
    ELSE << <<E("mopen", <<>>, FALSE)>>,
            <<E("lvl", <<ToString(mons[1].level)>>, TRUE)>>,
            <<E("species", <<mons[1].species>>, TRUE)>>,
            <<E("mclose", <<>>, TRUE)>> >> \o MonLines(Tail(mons))

\* struct_type "" stands for None.  The file is written only when the
\* declaration was found.
rewriteTrainerParty(f, party_name, mons, struct_type) ==
    LET lines == ReadLines(f)
        found == FindParty(lines, 1, party_name, [start |-> 0, end |-> 0, header_type |-> ""])
        st == IF struct_type = ""
              THEN (IF found.header_type # "" THEN found.header_type
                    ELSE "TrainerMonNoItemDefaultMoves")
              ELSE struct_type
        new_lines == << <<E("hdr", <<st, party_name>>, FALSE)>> >>
                         \o MonLines(mons) \o << <<E("end", <<>>, FALSE)>> >>
    IN  IF found.start = 0 \/ found.end = 0 THEN f
        ELSE SubSeq(lines, 1, found.start - 1) \o new_lines \o SubSeq(lines, found.end + 1, Len(lines))

-----------------------------------------------------------------------------
(* parseTrainerParties.  The function reads the file as one text, so its   *)
(* patterns run over the elements of all lines in order.                   *)

RECURSIVE Flat(_)
Flat(lines) == IF lines = <<>> THEN <<>> ELSE Head(lines) \o Flat(Tail(lines))

\* The elements whose text holds a `}`.
ClosingKinds == {"mclose", "end", "close", "closeNC"}

\* The position of the first element from i on whose kind is in ks (0: none).
FirstFrom(els, i, ks) ==
    IF \E h \in i..Len(els) : els[h].k \in ks
    THEN CHOOSE h \in i..Len(els) :
            els[h].k \in ks /\ \A g \in i..(h - 1) : els[g].k \notin ks
    ELSE 0

\* int(l) of a run of digits.
MaxLevel == 100
LevelOf(digits) ==
    IF \E n \in 0..MaxLevel : ToString(n) = digits
    THEN CHOOSE n \in 0..MaxLevel : ToString(n) = digits
    ELSE 0

\* re.findall(r'\.lvl\s*=\s*(\d+).*?\.species\s*=\s*(SPECIES_[A-Z0-9_]+)', body, re.S):
\* the first .lvl that a .species follows, with the nearest .species after
\* it; then on from there.
RECURSIVE Pairs(_, _)
Pairs(els, i) ==
    LET l == FirstFrom(els, i, {"lvl"})
        sp == IF l = 0 THEN 0 ELSE FirstFrom(els, l + 1, {"species"})
    IN  IF l = 0 \/ sp = 0 THEN <<>>
        ELSE <<[level |-> LevelOf(els[l].v[1]), species |-> els[sp].v[1]]>>
                 \o Pairs(els, sp + 1)

\* The value a dict holds for a key after the (key, value) entries were
\* stored in order: the last one stored for the key.
Has(entries, key) == \E i \in 1..Len(entries) : entries[i].name = key
Get(entries, key) ==
    entries[CHOOSE i \in 1..Len(entries) :
                entries[i].name = key
                /\ \A h \in (i + 1)..Len(entries) : entries[h].name # key].mons

\* The macro pass: macro_pattern takes `#define <name> \` and the text after
\* it up to the first `}` (.*?\}), and the search goes on behind the match.
RECURSIVE MacroPass(_, _)
MacroPass(els, i) ==
    LET p == FirstFrom(els, i, {"macro"})
        q == IF p = 0 THEN 0 ELSE FirstFrom(els, p + 1, ClosingKinds)
    IN  IF p = 0 \/ q = 0 THEN <<>>
        ELSE <<[name |-> els[p].v[1], mons |-> Pairs(SubSeq(els, p + 1, q), 1)]>>
                 \o MacroPass(els, q + 1)

\* The array pass: pattern takes `struct <T> <name>[] = {` and the text after
\* it up to the first `};`; a body that, stripped, is the name of a macro
\* gets the macro's list.
RECURSIVE ArrayPass(_, _, _)
ArrayPass(els, i, macros) ==
    LET p == FirstFrom(els, i, {"hdr"})
        q == IF p = 0 THEN 0 ELSE FirstFrom(els, p + 1, {"end"})
        body == SubSeq(els, p + 1, q - 1)
    IN  IF p = 0 \/ q = 0 THEN <<>>
        ELSE <<[name |-> els[p].v[2],
                mons |-> IF Len(body) = 1 /\ body[1].k = "ref" /\ Has(macros, body[1].v[1])
                         THEN Get(macros, body[1].v[1])
                         ELSE Pairs(body, 1)]>>
                 \o ArrayPass(els, q + 1, macros)

\* The entries of the dict returned, in the order they were stored.
parseTrainerParties(f) ==
    LET els == Flat(ReadLines(f))
    IN  ArrayPass(els, 1, MacroPass(els, 1))

-----------------------------------------------------------------------------
(* Values shared by the specifications.                                    *)

NoBefore == [file |-> <<>>, partyFile |-> <<>>, trainer_data |-> <<>>]
NoCall == [op |-> "none"]
NoRet == Returned(<<>>)
NoInput == [kind |-> "none", val |-> <<>>]

Snapshot == [file |-> file, partyFile |-> partyFile, trainer_data |-> trainer_data]

-----------------------------------------------------------------------------
(* SpecFunctions: the pure functions applied to inputs drawn at the start. *)

\* Characters a name is typed from; "!" has no token.
NameChars == {"A", "b", "7", " ", "&", ".", "!"}
Names == SeqsUpTo(NameChars, MaxNameLen)

\* The pieces between the commas of a token list, as they appear in a file.
TokenPieces == { <<"_","A">>, <<" ","_","b">>, <<" ">> \o END_TOKEN, <<>>,
                 <<" ","_","A","C","U","T","E">>, <<" ">> \o SPACE_TOKEN \o <<" ">> }
TokenLists == SeqsUpTo(TokenPieces, MaxTokens)

\* The text of a token list: its pieces with a comma between them.
RECURSIVE RawJoin(_)
RawJoin(pieces) ==
    IF Len(pieces) = 0 THEN <<>>
    ELSE IF Len(pieces) = 1 THEN pieces[1]
    ELSE pieces[1] \o <<",">> \o RawJoin(Tail(pieces))

FlagWords == {"0", PARTY_FLAG_HAS_ITEM, PARTY_FLAG_CUSTOM_MOVES,
              "PARTY_FLAG_HAS_ITEM_2", "PARTY_FLAG_OTHER"}
FlagExprs == SeqsUpTo(FlagWords, MaxFlagWords)

InitFunctions ==
    /\ input \in ([kind : {"name"}, val : Names]
                    \cup [kind : {"tokens"}, val : TokenLists]
                    \cup [kind : {"flags"}, val : FlagExprs])
    /\ file = <<>>
    /\ partyFile = <<>>
    /\ trainer_data = <<>>
    /\ current_trainer_index = 0
    /\ entryName = <<>>
    /\ call = NoCall
    /\ ret = NoRet
    /\ before = NoBefore

Encode ==
    /\ call.op = "none"
    /\ input.kind = "name"
    /\ call' = [op |-> "encodeTrainerName"]
    /\ ret' = encodeTrainerName(input.val)
    /\ UNCHANGED <<file, partyFile, trainer_data, current_trainer_index, entryName,
                   input, before>>

Decode ==
    /\ call.op = "none"
    /\ input.kind = "tokens"
    /\ call' = [op |-> "decodeTrainerName"]
    /\ ret' = Returned(decodeTrainerName(RawJoin(input.val)))
    /\ UNCHANGED <<file, partyFile, trainer_data, current_trainer_index, entryName,
                   input, before>>

\* decodeTrainerName applied to what encodeTrainerName returned.
DecodeEncoded ==
    /\ call.op = "encodeTrainerName"
    /\ ret.ok
    /\ call' = [op |-> "decodeEncoded"]
    /\ ret' = Returned(decodeTrainerName(ret.out))
    /\ UNCHANGED <<file, partyFile, trainer_data, current_trainer_index, entryName,
                   input, before>>

FlagsToUnionAndStruct ==
    /\ call.op = "none"
    /\ input.kind = "flags"
    /\ call' = [op |-> "flagsToUnionAndStruct"]
    /\ ret' = Returned(flagsToUnionAndStruct(input.val))
    /\ UNCHANGED <<file, partyFile, trainer_data, current_trainer_index, entryName,
                   input, before>>

NextFunctions == Encode \/ Decode \/ DecodeEncoded \/ FlagsToUnionAndStruct

SpecFunctions == InitFunctions /\ [][NextFunctions]_vars

-----------------------------------------------------------------------------
(* Claims about the codec and the resolver (under SpecFunctions).          *)

\* The characters the character map covers, as the documentation lists them.
MappableChars == UpperChars \cup LowerChars \cup DigitChars \cup {" ", "&", "."}
Mappable(s) == \A i \in 1..Len(s) : s[i] \in MappableChars

\* The character a token denotes, or none.
Denotes(t) ==
    IF Len(t) = 2 /\ t[1] = "_" /\ t[2] \in (UpperChars \cup LowerChars \cup DigitChars)
    THEN <<t[2]>>
    ELSE IF t = <<"_","S","P","A","C","E">> THEN <<" ">>
    ELSE IF t = <<"_","A","M","P","E","R","S","A","N","D">> THEN <<"&">>
    ELSE IF t = <<"_","P","E","R","I","O","D">> THEN <<".">>
    ELSE <<>>

\* The token of a mappable character.
TokenOf(c) ==
    IF c = " " THEN <<"_","S","P","A","C","E">>
    ELSE IF c = "&" THEN <<"_","A","M","P","E","R","S","A","N","D">>
    ELSE IF c = "." THEN <<"_","P","E","R","I","O","D">>
    ELSE <<"_", c>>

\* C6: for every string s of mappable characters, the empty string
\* included, encodeTrainerName(s) succeeds and decodeTrainerName of its
\* result is s again.
C6_RoundTrip ==
    /\ (call.op = "encodeTrainerName" /\ Mappable(input.val)) => ret.ok
    /\ (call.op = "decodeEncoded" /\ Mappable(input.val)) => ret.out = input.val

C6_Witness ==
    /\ call.op = "decodeEncoded"
    /\ Len(input.val) >= 2
    /\ \E i \in 1..Len(input.val) : input.val[i] \in {" ", "&", "."}
    /\ \E i \in 1..Len(input.val) : input.val[i] \in LowerChars
    /\ ret.out = input.val

C6_WitnessEmpty ==
    call.op = "decodeEncoded" /\ input.val = <<>> /\ ret.out = <<>>

\* The tokens of a token list: its pieces, trimmed.
Trimmed(pieces) == [i \in 1..Len(pieces) |-> Strip(pieces[i])]

\* The characters of the tokens before the first one that stops the
\* decoding; unknownStops: an unrecognized token stops it too.
RECURSIVE CharsBeforeStop(_, _)
CharsBeforeStop(toks, unknownStops) ==
    IF toks = <<>> THEN <<>>
    ELSE IF toks[1] = <<>> \/ toks[1] = <<"_","E","N","D">> THEN <<>>
    ELSE IF unknownStops /\ Denotes(toks[1]) = <<>> THEN <<>>
    ELSE Denotes(toks[1]) \o CharsBeforeStop(Tail(toks), unknownStops)

\* C8 (as stated): decodeTrainerName stops at the first token that is _END,
\* empty or unrecognized; its result is the characters of the recognized
\* tokens before that token, and it never raises.
C8_StopsAtUnrecognized ==
    call.op = "decodeTrainerName" =>
        ret.ok /\ ret.out = CharsBeforeStop(Trimmed(input.val), TRUE)

\* C8 (amended): decodeTrainerName stops at the first token that is _END or
\* empty; an unrecognized token contributes no character and does not stop
\* the decoding; the result is the characters of the recognized tokens
\* before the first _END or empty token, and it never raises.
C8_StopsAtEndOrEmpty ==
    call.op = "decodeTrainerName" =>
        ret.ok /\ ret.out = CharsBeforeStop(Trimmed(input.val), FALSE)

\* A recognized token follows an unrecognized one and is decoded; a token
\* after the sentinel is not.
C8_Witness ==
    /\ call.op = "decodeTrainerName"
    /\ Len(input.val) = 3
    /\ Denotes(Strip(input.val[1])) = <<>> /\ Strip(input.val[1]) # <<>>
    /\ Strip(input.val[1]) # <<"_","E","N","D">>
    /\ Strip(input.val[2]) = <<"_","b">>
    /\ Strip(input.val[3]) = <<"_","E","N","D">>
    /\ ret.out = <<"b">>

\* The table of the flag-to-variant resolver.
VariantTable(has_item, custom_moves) ==
    IF ~has_item /\ ~custom_moves
    THEN <<".NoItemDefaultMoves", "TrainerMonNoItemDefaultMoves">>
    ELSE IF has_item /\ ~custom_moves
    THEN <<".ItemDefaultMoves", "TrainerMonItemDefaultMoves">>
    ELSE IF ~has_item /\ custom_moves
    THEN <<".NoItemCustomMoves", "TrainerMonNoItemCustomMoves">>
    ELSE <<".ItemCustomMoves", "TrainerMonItemCustomMoves">>

VariantRows == {VariantTable(h, c) : h \in BOOLEAN, c \in BOOLEAN}

\* C9: flagsToUnionAndStruct returns, for every flags expression, the row of
\* the table selected by (the expression contains PARTY_FLAG_HAS_ITEM, the
\* expression contains PARTY_FLAG_CUSTOM_MOVES); selector and struct type
\* always come from the same row.
C9_VariantTable ==
    call.op = "flagsToUnionAndStruct" =>
        /\ ret.ok
        /\ ret.out = VariantTable(Contains(input.val, "PARTY_FLAG_HAS_ITEM"),
                                  Contains(input.val, "PARTY_FLAG_CUSTOM_MOVES"))
        /\ ret.out \in VariantRows

C9_Witness ==
    /\ call.op = "flagsToUnionAndStruct"
    /\ input.val = <<"PARTY_FLAG_CUSTOM_MOVES", "PARTY_FLAG_HAS_ITEM">>
    /\ ret.out = <<".ItemCustomMoves", "TrainerMonItemCustomMoves">>

-----------------------------------------------------------------------------
(* The trainer tables and party tables the specifications start from.      *)

IdList == <<"TRAINER_A", "TRAINER_B", "TRAINER_C", "TRAINER_D">>
RosterList == <<"sParty_A", "sParty_B", "sParty_C", "sParty_D">>
AbsentId == "TRAINER_NONE"
AbsentRoster == "sParty_None"

\* Token lists as they stand in a file: "Ab", "b7" and an all-caps "AB".
TokensAb == <<"_","A",","," ","_","b",","," ","_","E","N","D">>
TokensB7 == <<"_","b",","," ","_","7",","," ","_","E","N","D">>
TokensAB == <<"_","A",","," ","_","B",","," ","_","E","N","D">>

OpenL(id) == <<E("open", <<id>>, FALSE)>>
CloseL == <<E("close", <<>>, TRUE)>>
CloseNCL == <<E("closeNC", <<>>, FALSE)>>
NameEl(text) == E("name", text, TRUE)
GenderEl == E("gender", <<"GENDER_MALE">>, TRUE)
DoubleEl == E("double", <<"FALSE">>, TRUE)
FlagsEl(comma) == E("flags", <<"PARTY_FLAG_HAS_ITEM">>, comma)
ItemsEl == E("items", <<"ITEM_NONE", "ITEM_NONE">>, TRUE)
PartyEl(roster, comma) == E("party", <<".ItemDefaultMoves", roster>>, comma)
TextEl == E("text", <<".trainerClass = CLASS_YOUNGSTER">>, TRUE)
GroupEl == E("group", <<".aiFlags">>, FALSE)
IfdefL == <<E("ifdef", <<>>, FALSE)>>
ElseL == <<E("else", <<>>, FALSE)>>
EndifL == <<E("endif", <<>>, FALSE)>>
DefineL == <<E("define", <<>>, FALSE)>>
\* A comment in a single-byte encoding: `// Pok<E9>mon`.
CommentL == <<E("text", <<"// Pok", BadByte, "mon">>, FALSE)>>

\* What stands before the first record of a table.
Heads == {<<>>, DefineL, CommentL}

\* The lines between a record's open line and its close line.
Body(shape, i) ==
    CASE shape = "bare" -> <<>>
      [] shape = "named" -> << <<TextEl>>, <<NameEl(TokensAb)>> >>
      [] shape = "full" ->
            << <<NameEl(TokensB7)>>, <<GenderEl>>, <<DoubleEl>>, <<FlagsEl(TRUE)>>,
               <<ItemsEl>>, <<PartyEl(RosterList[i], FALSE)>> >>
      [] shape = "noname" ->
            << <<GenderEl>>, <<FlagsEl(TRUE)>>, <<PartyEl(RosterList[i], FALSE)>> >>
      [] shape = "condname" ->
            << IfdefL, <<NameEl(TokensAb)>>, ElseL, <<NameEl(TokensAB)>>, EndifL >>
      [] shape = "shared" ->
            << <<NameEl(TokensAb)>>, <<GenderEl, PartyEl(RosterList[i], TRUE)>>,
               <<FlagsEl(TRUE)>> >>
      [] shape = "partyfirst" ->
            << <<PartyEl(RosterList[i], TRUE)>>, <<NameEl(TokensB7)>>, <<ItemsEl>>,
               <<FlagsEl(FALSE)>> >>
      [] shape = "groupfirst" ->
            << <<GroupEl>>, <<TextEl>>, CloseL, <<FlagsEl(TRUE)>>,
               <<PartyEl(RosterList[i], FALSE)>> >>

RecordShapes == {"bare", "named", "full", "noname", "condname", "shared",
                 "partyfirst", "groupfirst"}

Record(shape, i, closing) == <<OpenL(IdList[i])>> \o Body(shape, i) \o <<closing>>

\* A block of the table: one record, a record written on one line
\* ("oneline": `[<id>] = { .trainerName = {...}, },`), or ("dup") the same id
\* declared once in each branch of #ifdef DECAP_TRAINER_NAMES / #else / #endif.
Block(kind, i, closing) ==
    IF kind = "oneline"
    THEN << OpenL(IdList[i]) \o <<NameEl(TokensAb)>> \o closing >>
    ELSE IF kind = "dup"
    THEN <<IfdefL>> \o <<OpenL(IdList[i]), <<NameEl(TokensAb)>>, CloseL>>
             \o <<ElseL>> \o <<OpenL(IdList[i]), <<NameEl(TokensAB)>>, CloseL>>
             \o <<EndifL>>
    ELSE Record(kind, i, closing)

BlockKinds == RecordShapes \cup {"dup", "oneline"}

RECURSIVE Blocks(_, _, _)
Blocks(kinds, i, lastClosing) ==
    IF i > Len(kinds) THEN <<>>
    ELSE Block(kinds[i], i, IF i = Len(kinds) THEN lastClosing ELSE CloseL)
             \o Blocks(kinds, i + 1, lastClosing)

TrainerFiles ==
    { (IF head = <<>> THEN <<>> ELSE <<head>>) \o Blocks(kinds, 1, closing) :
        head \in Heads, kinds \in SeqsUpTo(BlockKinds, MaxRecords),
        closing \in {CloseL, CloseNCL} }

\* The lines of one entry of a party: `{` / `.lvl = <level>,` /
\* `.species = <species>,` / `},` (or `}` for the last entry of a macro).
Entry(level, species, comma) ==
    << <<E("mopen", <<>>, FALSE)>>,
       <<E("lvl", <<level>>, TRUE)>>,
       <<E("species", <<species>>, TRUE)>>,
       <<E("mclose", <<>>, comma)>> >>

\* Two multi-line object macros: one entry, and two entries.
MacroDefs ==
    << <<E("macro", <<"PARTY_RATTATA">>, FALSE)>> >>
        \o Entry("5", "SPECIES_RATTATA", FALSE)
        \o << <<E("macro", <<"PARTY_PAIR">>, FALSE)>> >>
        \o Entry("5", "SPECIES_RATTATA", TRUE)
        \o Entry("6", "SPECIES_PIDGEY", FALSE)

\* What stands before the first declaration of a party table.
PartyHeads == {<<>>, <<CommentL>>, MacroDefs}

\* Party tables: declarations over several lines, on one line, or empty.
Decl(shape, i) ==
    CASE shape = "multi2" ->
            << <<E("hdr", <<"TrainerMonNoItemDefaultMoves", RosterList[i]>>, FALSE)>> >>
               \o Entry("5", "SPECIES_RATTATA", TRUE)
               \o Entry("6", "SPECIES_PIDGEY", TRUE)
               \o << <<E("end", <<>>, FALSE)>> >>
      [] shape = "pair" ->
            << <<E("hdr", <<"TrainerMonNoItemDefaultMoves", RosterList[i]>>, FALSE),
                 E("ref", <<"PARTY_PAIR">>, FALSE),
                 E("end", <<>>, FALSE)>> >>
      [] shape = "multi" ->
            << <<E("hdr", <<"TrainerMonNoItemDefaultMoves", RosterList[i]>>, FALSE)>>,
               <<E("mopen", <<>>, FALSE)>>,
               <<E("lvl", <<"5">>, TRUE)>>,
               <<E("species", <<"SPECIES_RATTATA">>, TRUE)>>,
               <<E("mclose", <<>>, TRUE)>>,
               <<E("end", <<>>, FALSE)>> >>
      [] shape = "single" ->
            << <<E("hdr", <<"TrainerMonNoItemDefaultMoves", RosterList[i]>>, FALSE),
                 E("ref", <<"PARTY_RATTATA">>, FALSE),
                 E("end", <<>>, FALSE)>> >>
      [] shape = "empty" ->
            << <<E("hdr", <<"TrainerMonItemDefaultMoves", RosterList[i]>>, FALSE)>>,
               <<E("end", <<>>, FALSE)>> >>

DeclShapes == {"multi", "multi2", "single", "pair", "empty"}

RECURSIVE Decls(_, _)
Decls(shapes, i) ==
    IF i > Len(shapes) THEN <<>> ELSE Decl(shapes[i], i) \o Decls(shapes, i + 1)

PartyFiles ==
    { head \o Decls(shapes, 1) :
        head \in PartyHeads, shapes \in SeqsUpTo(DeclShapes, MaxRosters) }

\* Arguments the writers are called with.
TrainerIds == {IdList[i] : i \in 1..MaxRecords} \cup {AbsentId}
RosterNames == {RosterList[i] : i \in 1..MaxRosters} \cup {AbsentRoster}
NewNames == {<<>>, <<"b", "7">>}
OptionArgs ==
    { [gender |-> "GENDER_FEMALE", double |-> TRUE, partyFlags |-> <<"0">>,
       items |-> <<>>],
      [gender |-> "GENDER_MALE", double |-> FALSE,
       partyFlags |-> <<"PARTY_FLAG_CUSTOM_MOVES">>,
       items |-> <<"ITEM_NONE", "ITEM_POTION">>],
      [gender |-> "GENDER_FEMALE", double |-> TRUE,
       partyFlags |-> <<"PARTY_FLAG_HAS_ITEM", "PARTY_FLAG_CUSTOM_MOVES">>,
       items |-> <<"ITEM_POTION", "ITEM_NONE", "ITEM_NONE", "ITEM_NONE">>],
      [gender |-> "GENDER_MALE", double |-> TRUE,
       partyFlags |-> <<"PARTY_FLAG_HAS_ITEM">>, items |-> <<"ITEM_POTION">>],
      [gender |-> "GENDER_FEMALE", double |-> FALSE,
       partyFlags |-> <<"PARTY_FLAG_HAS_ITEM">>, items |-> <<>>] }
MonLists ==
    { <<>>, <<[level |-> 7, species |-> "SPECIES_PIDGEY"]>>,
      <<[level |-> 7, species |-> "SPECIES_PIDGEY"],
        [level |-> 12, species |-> "SPECIES_RATTATA"]>> }
StructTypes == {"", "TrainerMonItemCustomMoves"}

-----------------------------------------------------------------------------
(* Spec: one call of a scanner or patch-writer function on a file.         *)

Init ==
    /\ \/ /\ input = [kind |-> "trainers", val |-> <<>>]
          /\ file \in TrainerFiles
          /\ partyFile = <<>>
       \/ /\ input = [kind |-> "parties", val |-> <<>>]
          /\ file = <<>>
          /\ partyFile \in PartyFiles
    /\ trainer_data = <<>>
    /\ current_trainer_index = 0
    /\ entryName = <<>>
    /\ call = NoCall
    /\ ret = NoRet
    /\ before = NoBefore

\* parseTrainerData(path), on the file as first given or as a writer left it.
ParseTrainerData ==
    /\ input.kind = "trainers"
    /\ call.op # "parseTrainerData"
    /\ call' = [op |-> "parseTrainerData"]
    /\ ret' = Returned(parseTrainerData(file))
    /\ before' = IF call.op = "none" THEN Snapshot ELSE before
    /\ UNCHANGED <<file, partyFile, trainer_data, current_trainer_index, entryName, input>>

\* rewriteTrainerName(path, trainer_id, encodeTrainerName(name))
RewriteTrainerName ==
    /\ input.kind = "trainers"
    /\ call.op = "none"
    /\ \E trainer_id \in TrainerIds, name \in NewNames :
          LET tokenStr == encodeTrainerName(name).out
          IN  /\ call' = [op |-> "rewriteTrainerName", trainer_id |-> trainer_id,
                          name |-> name, tokenStr |-> tokenStr]
              /\ file' = rewriteTrainerName(file, trainer_id, tokenStr)
    /\ ret' = Returned(<<>>)
    /\ before' = Snapshot
    /\ UNCHANGED <<partyFile, trainer_data, current_trainer_index, entryName, input>>

\* rewriteTrainerOptions(path, trainerId, gender, double, partyFlags, items)
RewriteTrainerOptions ==
    /\ input.kind = "trainers"
    /\ call.op = "none"
    /\ \E trainerId \in TrainerIds, a \in OptionArgs :
          LET args == [trainerId |-> trainerId, gender |-> a.gender, double |-> a.double,
                       partyFlags |-> a.partyFlags, items |-> a.items]
              r == rewriteTrainerOptions(file, args)
          IN  /\ call' = [op |-> "rewriteTrainerOptions", trainer_id |-> trainerId,
                          args |-> args]
              /\ file' = r.lines
              /\ ret' = IF r.raised THEN Raised("re.error") ELSE Returned(<<>>)
    /\ before' = Snapshot
    /\ UNCHANGED <<partyFile, trainer_data, current_trainer_index, entryName, input>>

\* rewriteTrainerParty(path, party_name, mons, struct_type)
RewriteTrainerParty ==
    /\ input.kind = "parties"
    /\ call.op = "none"
    /\ \E party_name \in RosterNames, mons \in MonLists, struct_type \in StructTypes :
          /\ call' = [op |-> "rewriteTrainerParty", party_name |-> party_name,
                      mons |-> mons, struct_type |-> struct_type]
          /\ partyFile' = rewriteTrainerParty(partyFile, party_name, mons, struct_type)
    /\ ret' = Returned(<<>>)
    /\ before' = Snapshot
    /\ UNCHANGED <<file, trainer_data, current_trainer_index, entryName, input>>

\* parseTrainerParties(path), on the file as first given or as a writer left it.
ParseTrainerParties ==
    /\ input.kind = "parties"
    /\ call.op # "parseTrainerParties"
    /\ call' = [op |-> "parseTrainerParties"]
    /\ ret' = Returned(parseTrainerParties(partyFile))
    /\ before' = IF call.op = "none" THEN Snapshot ELSE before
    /\ UNCHANGED <<file, partyFile, trainer_data, current_trainer_index, entryName, input>>

\* The writer that was just called is called once more with the same
\* arguments, on the file as the first call left it.
ApplyAgain ==
    /\ call.op \in {"rewriteTrainerName", "rewriteTrainerOptions", "rewriteTrainerParty"}
    /\ call' = [op |-> "again", first |-> call]
    /\ before' = Snapshot
    /\ \/ /\ call.op = "rewriteTrainerName"
          /\ file' = rewriteTrainerName(file, call.trainer_id, call.tokenStr)
          /\ ret' = Returned(<<>>)
          /\ UNCHANGED partyFile
       \/ /\ call.op = "rewriteTrainerOptions"
          /\ LET r == rewriteTrainerOptions(file, call.args)
             IN  /\ file' = r.lines
                 /\ ret' = IF r.raised THEN Raised("re.error") ELSE Returned(<<>>)
          /\ UNCHANGED partyFile
       \/ /\ call.op = "rewriteTrainerParty"
          /\ partyFile' = rewriteTrainerParty(partyFile, call.party_name, call.mons,
                                              call.struct_type)
          /\ ret' = Returned(<<>>)
          /\ UNCHANGED file
    /\ UNCHANGED <<trainer_data, current_trainer_index, entryName, input>>

Next ==
    \/ ParseTrainerData
    \/ ParseTrainerParties
    \/ ApplyAgain
    \/ RewriteTrainerName
    \/ RewriteTrainerOptions
    \/ RewriteTrainerParty

Spec == Init /\ [][Next]_vars

-----------------------------------------------------------------------------
(* Claims about the scanner and the patch writers (under Spec).            *)

OpenLines(lines, id) == {i \in 1..Len(lines) : HasOpen(lines[i], id)}
OccursOnce(lines, id) == Cardinality(OpenLines(lines, id)) = 1
OpenLine(lines, id) == CHOOSE i \in OpenLines(lines, id) : TRUE

\* Opening braces minus closing braces of a line.
RECURSIVE LineDepth(_)
LineDepth(line) ==
    IF line = <<>> THEN 0
    ELSE LineDepth(Tail(line))
            + (IF line[1].k \in {"open", "group"} THEN 1
               ELSE IF line[1].k \in {"close", "closeNC"} THEN -1 ELSE 0)

\* The close line of the record opened on line s: the first line on which
\* the brace depth counted from s is back to zero.
RECURSIVE RecordEndFrom(_, _, _)
RecordEndFrom(lines, i, depth) ==
    IF i > Len(lines) THEN Len(lines)
    ELSE IF depth + LineDepth(lines[i]) <= 0 THEN i
    ELSE RecordEndFrom(lines, i + 1, depth + LineDepth(lines[i]))

RecordEnd(lines, s) == RecordEndFrom(lines, s, 0)

\* The lines outside s..e of `old` are the first and last lines of `new`.
SameOutside(old, new, s, e) ==
    LET tail == Len(old) - e
    IN  /\ Len(new) >= (s - 1) + tail
        /\ SubSeq(new, 1, s - 1) = SubSeq(old, 1, s - 1)
        /\ SubSeq(new, Len(new) - tail + 1, Len(new)) = SubSeq(old, e + 1, Len(old))

\* The file holds no byte that reading drops.
ValidUtf8(f) == ReadLines(f) = f

\* C1: rewriteTrainerName and rewriteTrainerOptions change no line outside
\* the target record: for a file (here: of valid UTF-8) in which the id
\* occurs, every line before the record's open line and every line after
\* its own close line is the same after the call, also when the record
\* lacks the field being patched.
C1_PatchStaysInRecord ==
    (/\ call.op \in {"rewriteTrainerName", "rewriteTrainerOptions"}
     /\ ValidUtf8(before.file)
     /\ OccursOnce(before.file, call.trainer_id)) =>
        LET s == OpenLine(before.file, call.trainer_id)
        IN  SameOutside(before.file, file, s, RecordEnd(before.file, s))

Reported(lines, id) ==
    LET t == parseTrainerData(lines)
    IN  {t[i] : i \in {j \in 1..Len(t) : t[j].id = id}}

\* C2: after rewriteTrainerName(file, id, encodeTrainerName(s)), for an id
\* that parseTrainerData reported with a name, parseTrainerData reports for
\* that id a record whose name is s, whether or not the record or its name
\* line is duplicated across the branches of the conditional.
C2_PatchThenReparse ==
    (/\ call.op = "rewriteTrainerName"
     /\ \E r \in Reported(before.file, call.trainer_id) : "name" \in r.has) =>
        \E r \in Reported(file, call.trainer_id) :
            "name" \in r.has /\ r.name = call.name

TargetAbsent ==
    \/ /\ call.op \in {"rewriteTrainerName", "rewriteTrainerOptions"}
       /\ OpenLines(before.file, call.trainer_id) = {}
    \/ /\ call.op = "rewriteTrainerParty"
       /\ \A i \in 1..Len(before.partyFile) : ~HasHdr(before.partyFile[i], call.party_name)

\* C3: a writer called with a record id (or roster name) that does not
\* occur in the file leaves the content of the file identical to what it
\* was before the call and raises nothing.
C3_NotFoundNoOp ==
    TargetAbsent => /\ ret.ok
                    /\ file = before.file
                    /\ partyFile = before.partyFile

Ids(trainers) == [i \in 1..Len(trainers) |-> trainers[i].id]

\* The ids of the record-open lines, in source order; activeOnly: only of
\* those that lie in a branch the toggle selects.
RECURSIVE OpenIdsFrom(_, _, _, _)
OpenIdsFrom(lines, i, active, activeOnly) ==
    IF i > Len(lines) THEN <<>>
    ELSE IF StartsWith(lines[i], "ifdef")
    THEN OpenIdsFrom(lines, i + 1, UseDecap(lines), activeOnly)
    ELSE IF StartsWith(lines[i], "else")
    THEN OpenIdsFrom(lines, i + 1, ~UseDecap(lines), activeOnly)
    ELSE IF StartsWith(lines[i], "endif")
    THEN OpenIdsFrom(lines, i + 1, TRUE, activeOnly)
    ELSE IF HasKind(lines[i], "open") /\ (active \/ ~activeOnly)
    THEN <<lines[i][FirstOf(lines[i], "open")].v[1]>>
             \o OpenIdsFrom(lines, i + 1, active, activeOnly)
    ELSE OpenIdsFrom(lines, i + 1, active, activeOnly)

ActiveOpenIds(lines) == OpenIdsFrom(lines, 1, TRUE, TRUE)
AllOpenIds(lines) == OpenIdsFrom(lines, 1, TRUE, FALSE)

NoDirectives(lines) ==
    \A i \in 1..Len(lines) : ~HasKind(lines[i], "ifdef") /\ ~HasKind(lines[i], "else")
                                /\ ~HasKind(lines[i], "endif")

\* C4: parseTrainerData reports no record whose open line lies in the
\* inactive branch of the conditional: the ids it reports are those of the
\* open lines of the active text, so an id declared once in each branch is
\* reported exactly once.
C4_InactiveExcluded ==
    call.op = "parseTrainerData" => Ids(ret.out) = ActiveOpenIds(file)

\* C5: for a file of N well-formed, disjoint records and no conditional
\* directive, parseTrainerData returns N records, the i-th with the id of
\* the i-th record-open line, whether the last record closes with `},` or `}`.
C5_CountAndOrder ==
    (call.op = "parseTrainerData" /\ NoDirectives(file)) =>
        Ids(ret.out) = AllOpenIds(file)

C5_Witness ==
    /\ call.op = "parseTrainerData"
    /\ NoDirectives(file)
    /\ Len(ret.out) = 2
    /\ Len(file) > 0 /\ StartsWith(file[Len(file)], "closeNC")
    /\ Ids(ret.out) = <<"TRAINER_A", "TRAINER_B">>

\* C14: for each of rewriteTrainerName, rewriteTrainerOptions and
\* rewriteTrainerParty, a second call with the same arguments leaves the file
\* exactly as the first call left it.
C14_RepatchIdempotent ==
    call.op = "again" => file = before.file /\ partyFile = before.partyFile

FieldKinds == {"name", "gender", "items", "double", "flags", "party"}
KeyOf(kind) == IF kind = "flags" THEN "partyFlags" ELSE kind

\* The line on which the record opened on line s closes, for a record that
\* holds no nested brace group: the first line from s on with a `}` or `},`.
PlainRecordEnd(lines, s) ==
    IF \E i \in s..Len(lines) : HasKind(lines[i], "close") \/ HasKind(lines[i], "closeNC")
    THEN CHOOSE i \in s..Len(lines) :
            /\ HasKind(lines[i], "close") \/ HasKind(lines[i], "closeNC")
            /\ \A h \in s..(i - 1) :
                  ~HasKind(lines[h], "close") /\ ~HasKind(lines[h], "closeNC")
    ELSE Len(lines)

\* The elements of lines s..e in order.
SpanEls(lines, s, e) == Flat(SubSeq(lines, s, e))

\* C13: parseTrainerData extracts each field that occurs anywhere in a
\* record, whether or not it shares a line with another field or with the
\* record-open pattern: for a file without conditional directives and a
\* record without nested brace groups, the record reported has every field
\* of the record's text, the name being the decoded token list.
C13_LayoutInsensitive ==
    (call.op = "parseTrainerData" /\ NoDirectives(file)) =>
        \A i \in 1..Len(ret.out) :
            LET id == ret.out[i].id
                s == OpenLine(file, id)
                els == SpanEls(file, s, PlainRecordEnd(file, s))
            IN  (OccursOnce(file, id) /\ \A j \in 1..Len(els) : els[j].k # "group") =>
                    /\ \A j \in 1..Len(els) :
                          els[j].k \in FieldKinds => KeyOf(els[j].k) \in ret.out[i].has
                    /\ FirstFrom(els, 1, {"name"}) # 0 =>
                          ret.out[i].name =
                              decodeTrainerName(els[FirstFrom(els, 1, {"name"})].v)

\* Opening braces minus closing braces of lines s..e.
RECURSIVE DepthSum(_, _, _)
DepthSum(lines, s, e) ==
    IF s > e THEN 0 ELSE LineDepth(lines[s]) + DepthSum(lines, s + 1, e)

\* The record opened on line s is well-formed: its brace depth returns to
\* zero, and no other record opens before it does.
WellFormedRecord(lines, s) ==
    LET e == RecordEnd(lines, s)
    IN  /\ DepthSum(lines, s, e) = 0
        /\ \A h \in (s + 1)..e : ~HasKind(lines[h], "open")

\* C15: in parseTrainerData a record ends where the count of `{` minus `}`
\* since its open line is back to zero: for a file without conditional
\* directives, a well-formed record is reported exactly once, and a field
\* that stands on a line of its own anywhere before that point, also after
\* a nested brace group whose closing line starts with `},`, is extracted
\* into it.
C15_BraceDepthBoundary ==
    (call.op = "parseTrainerData" /\ NoDirectives(file)) =>
        \A s \in {i \in 1..Len(file) : HasKind(file[i], "open")} :
            LET id == file[s][FirstOf(file[s], "open")].v[1]
                e == RecordEnd(file, s)
                found == {i \in 1..Len(ret.out) : ret.out[i].id = id}
            IN  (OccursOnce(file, id) /\ WellFormedRecord(file, s)) =>
                    /\ Cardinality(found) = 1
                    /\ \A h \in (s + 1)..e :
                          (Len(file[h]) = 1 /\ file[h][1].k \in FieldKinds) =>
                              \A i \in found : KeyOf(file[h][1].k) \in ret.out[i].has

\* The record opened on line s has the field of kind k on a line of its own.
OwnLine(lines, s, k) ==
    \E h \in (s + 1)..PlainRecordEnd(lines, s) : Len(lines[h]) = 1 /\ lines[h][1].k = k

\* C16: for a record that has .gender, .doubleBattle, .partyFlags and .items
\* each on its own line, rewriteTrainerOptions called with the values the
\* editor produces (partyFlags '0' or a flag expression, 0 to 4 items)
\* raises nothing, and parseTrainerData then reports for the record exactly
\* the gender, double, partyFlags and items that were passed.
C16_OptionsAccepted ==
    (/\ call.op = "rewriteTrainerOptions"
     /\ NoDirectives(before.file)
     /\ OccursOnce(before.file, call.trainer_id)
     /\ LET s == OpenLine(before.file, call.trainer_id)
        IN  /\ Len(before.file[s]) = 1
            /\ \A k \in {"gender", "double", "flags", "items"} :
                  OwnLine(before.file, s, k)
            /\ \A h \in s..PlainRecordEnd(before.file, s) :
                  ~HasKind(before.file[h], "group")) =>
        /\ ret.ok
        /\ \E r \in Reported(file, call.trainer_id) :
              /\ r.gender = call.args.gender
              /\ r.double = call.args.double
              /\ r.partyFlags = call.args.partyFlags
              /\ r.items = call.args.items

\* The party elements of lines s..e, as <<selector, roster>> pairs in order.
RECURSIVE PartyRefs(_, _, _)
PartyRefs(lines, s, e) ==
    IF s > e \/ s > Len(lines) THEN <<>>
    ELSE SelectSeq(lines[s], LAMBDA el : el.k = "party") \o PartyRefs(lines, s + 1, e)

\* C10: after rewriteTrainerOptions returns, for a record of the file that
\* holds a .party = { .<selector> = sParty_<name> } field, the selector in
\* that record is the one flagsToUnionAndStruct(partyFlags) yields and the
\* roster name is unchanged, wherever the field sits in the record.
C10_UnionTagFollowsFlags ==
    (/\ call.op = "rewriteTrainerOptions"
     /\ ret.ok
     /\ OccursOnce(before.file, call.trainer_id)
     /\ LET s == OpenLine(before.file, call.trainer_id)
        IN  PartyRefs(before.file, s, RecordEnd(before.file, s)) # <<>>) =>
        LET s == OpenLine(before.file, call.trainer_id)
            old == PartyRefs(before.file, s, RecordEnd(before.file, s))
            new == PartyRefs(file, s, RecordEnd(file, s))
        IN  /\ Len(new) = Len(old)
            /\ \A j \in 1..Len(new) :
                  /\ new[j].v[1] = flagsToUnionAndStruct(call.args.partyFlags)[1]
                  /\ new[j].v[2] = old[j].v[2]

HdrLines(lines, name) == {i \in 1..Len(lines) : HasHdr(lines[i], name)}

\* The line that holds the `};` of the declaration whose header is on line s.
DeclEnd(lines, s) ==
    IF \E i \in s..Len(lines) : HasKind(lines[i], "end")
    THEN CHOOSE i \in s..Len(lines) :
            HasKind(lines[i], "end") /\ \A h \in s..(i - 1) : ~HasKind(lines[h], "end")
    ELSE Len(lines)

\* C11: rewriteTrainerParty replaces only the declaration of the named
\* roster, from its header line to that declaration's own `};`: for a file
\* (here: of valid UTF-8) that declares the roster, every line before the
\* header and every line after the declaration's `};` is the same after the
\* call and between them stands the generated block, whether the declaration
\* spans several lines or is written on one line.
C11_RosterFrame ==
    (/\ call.op = "rewriteTrainerParty"
     /\ ValidUtf8(before.partyFile)
     /\ Cardinality(HdrLines(before.partyFile, call.party_name)) = 1) =>
        LET old == before.partyFile
            s == CHOOSE i \in HdrLines(old, call.party_name) : TRUE
            e == DeclEnd(old, s)
            tail == Len(old) - e
        IN  /\ SameOutside(old, partyFile, s, e)
            /\ LET block == SubSeq(partyFile, s, Len(partyFile) - tail)
               IN  /\ Len(block) = 4 * Len(call.mons) + 2
                   /\ HasHdr(block[1], call.party_name)
                   /\ SubSeq(block, 2, Len(block)) =
                          MonLines(call.mons) \o << <<E("end", <<>>, FALSE)>> >>

\* The declarations of a party table as [name, body]: each header with the
\* elements between it and the declaration's own `};`.
RECURSIVE Declared(_, _)
Declared(els, i) ==
    LET p == FirstFrom(els, i, {"hdr"})
        q == IF p = 0 THEN 0 ELSE FirstFrom(els, p + 1, {"end"})
    IN  IF p = 0 \/ q = 0 THEN <<>>
        ELSE <<[name |-> els[p].v[2], body |-> SubSeq(els, p + 1, q - 1)]>>
                 \o Declared(els, q + 1)

MacroNames(els) == {els[i].v[1] : i \in {j \in 1..Len(els) : els[j].k = "macro"}}

\* The whole replacement text of a macro: the elements after its #define
\* line up to the next #define, declaration or comment.
MacroText(els, name) ==
    LET p == CHOOSE i \in 1..Len(els) : els[i].k = "macro" /\ els[i].v[1] = name
        q == FirstFrom(els, p + 1, {"macro", "hdr", "text"})
    IN  SubSeq(els, p + 1, IF q = 0 THEN Len(els) ELSE q - 1)

IsMacroRef(els, body) ==
    Len(body) = 1 /\ body[1].k = "ref" /\ body[1].v[1] \in MacroNames(els)

\* C12: parseTrainerParties returns, for a roster whose body is the name of
\* a macro, one member per .lvl/.species pair of the macro's whole
\* replacement text, in source order, for macros of one, two, ... entries;
\* for a roster with a literal body, all the pairs of the body in order.
C12_MacroIndirection ==
    call.op = "parseTrainerParties" =>
        LET els == Flat(partyFile)
            ds == Declared(els, 1)
        IN  \A i \in 1..Len(ds) :
                /\ Has(ret.out, ds[i].name)
                /\ Get(ret.out, ds[i].name) =
                      IF IsMacroRef(els, ds[i].body)
                      THEN Pairs(MacroText(els, ds[i].body[1].v[1]), 1)
                      ELSE Pairs(ds[i].body, 1)

-----------------------------------------------------------------------------
(* SpecApp: the editor with a trainer table loaded; the user selects a     *)
(* trainer, types a name and saves it.                                     *)

AppFiles ==
    { (IF head = <<>> THEN <<>> ELSE <<head>>) \o Blocks(kinds, 1, CloseL) :
        head \in Heads,
        kinds \in {<<"named", "full">>, <<"condname">>, <<"noname", "named">>} }

InitApp ==
    /\ file \in AppFiles
    /\ partyFile = <<>>
    /\ trainer_data = <<>>
    /\ current_trainer_index = 0
    /\ entryName = <<>>
    /\ input = NoInput
    /\ call = NoCall
    /\ ret = NoRet
    /\ before = NoBefore

\* TrainerEditor.loadTrainerData, as selectCfruFolder calls it.
loadTrainerData ==
    /\ trainer_data' = parseTrainerData(file)
    /\ call' = [op |-> "loadTrainerData"]
    /\ ret' = Returned(<<>>)
    /\ UNCHANGED <<file, partyFile, current_trainer_index, entryName, input, before>>

\* TrainerEditor.on_select_trainer: data.get('name', '') goes to the entry.
on_select_trainer ==
    /\ before = NoBefore
    /\ \E idx \in 1..Len(trainer_data) :
          /\ current_trainer_index' = idx
          /\ entryName' = IF "name" \in trainer_data[idx].has
                          THEN trainer_data[idx].name ELSE <<>>
    /\ call' = [op |-> "on_select_trainer"]
    /\ ret' = Returned(<<>>)
    /\ UNCHANGED <<file, partyFile, trainer_data, input, before>>

\* The user edits the name entry.
TypeName ==
    /\ before = NoBefore
    /\ \E s \in Names : entryName' = s
    /\ call' = [op |-> "TypeName"]
    /\ ret' = Returned(<<>>)
    /\ UNCHANGED <<file, partyFile, trainer_data, current_trainer_index, input, before>>

\* TrainerEditor.saveTrainerName: [file, trainer_data, ret] after the call.
saveTrainerName(f, data, idx, new_name) ==
    LET encoded == encodeTrainerName(new_name)
    IN  IF idx = 0 THEN [file |-> f, trainer_data |-> data, ret |-> Returned(<<>>)]
        ELSE IF ~encoded.ok THEN [file |-> f, trainer_data |-> data, ret |-> encoded]
        ELSE [file |-> rewriteTrainerName(f, data[idx].id, encoded.out),
              trainer_data |-> [data EXCEPT ![idx].name = new_name,
                                            ![idx].has = @ \cup {"name"}],
              ret |-> encoded]

SaveTrainerName ==
    /\ before = NoBefore
    /\ current_trainer_index <= Len(trainer_data)
    /\ LET r == saveTrainerName(file, trainer_data, current_trainer_index, entryName)
       IN  /\ file' = r.file
           /\ trainer_data' = r.trainer_data
           /\ ret' = r.ret
    /\ call' = [op |-> "saveTrainerName", name |-> entryName,
                selected |-> current_trainer_index # 0]
    /\ before' = Snapshot
    /\ UNCHANGED <<partyFile, current_trainer_index, entryName, input>>

NextApp == loadTrainerData \/ on_select_trainer \/ TypeName \/ SaveTrainerName

SpecApp == InitApp /\ [][NextApp]_vars

\* C7: encodeTrainerName fails exactly when some character of the name has
\* no token; then no token output is produced and saveTrainerName changes
\* neither the record's name in memory nor the trainer file; when it
\* succeeds its output is the tokens of the characters, in order, followed
\* by one _END as the last token.
C7_EncodeStrict ==
    (call.op = "saveTrainerName" /\ call.selected) =>
        /\ ret.ok <=> Mappable(call.name)
        /\ ~ret.ok => /\ ret.out = <<>>
                      /\ file = before.file
                      /\ trainer_data = before.trainer_data
        /\ ret.ok => Trimmed(SplitComma(ret.out))
                        = [i \in 1..Len(call.name) |-> TokenOf(call.name[i])]
                              \o << <<"_","E","N","D">> >>

\* A name whose first character is mappable and whose second is not is
\* refused with nothing written.
C7_Witness ==
    /\ call.op = "saveTrainerName"
    /\ call.selected
    /\ call.name = <<"A", "!">>
    /\ ~ret.ok
    /\ file = before.file
    /\ trainer_data = before.trainer_data
    /\ \E i \in 1..Len(file) : HasKind(file[i], "name")

C7_WitnessSaved ==
    /\ call.op = "saveTrainerName"
    /\ call.selected
    /\ call.name = <<"b", " ">>
    /\ ret.ok
    /\ file # before.file

=============================================================================
